---- MODULE Spec2Model ----
(***************************************************************************)
(* Verification model of the spaceship-titanic preprocessing pipeline:     *)
(*   src/src/train.js       run():  schema peek, statistics pass,          *)
(*                          vocabulary pass, layout, row encoding, persist *)
(*   src/src/prediction.js  main(): artifact load, encodeRow, slice/pad,   *)
(*                          threshold, submission                          *)
(***************************************************************************)
EXTENDS Integers, Sequences, FiniteSets, TLC

\* ------------------------------------------------------------------ bounds
\* rows of train.csv
MaxRows == 2
\* rows of test.csv
MaxTestRows == 2

\* ------------------------------------------------------- JavaScript numbers
(* A JavaScript number is modelled exactly as                              *)
(*      (n/d) * Huge^e * (rn/rd)^(p/2)                                     *)
(* with n/d a reduced fraction, Huge a finite double of magnitude 1e308    *)
(* (Huge*Huge and Huge+Huge overflow to Infinity, Huge + small = Huge),    *)
(* and an optional irrational square-root factor, or as one of Infinity,   *)
(* -Infinity, NaN.                                                          *)
(* k = "eps" is the literal 1e-12 of Math.max(var_, 1e-12); k = "hole" is  *)
(* an array slot that was never written.                                   *)

Abs(x) == IF x < 0 THEN -x ELSE x

RECURSIVE GCD(_, _)
GCD(a, b) == IF b = 0 THEN a ELSE GCD(b, a % b)

Special(kind) == [k |-> kind, n |-> 0, d |-> 1, e |-> 0, p |-> 0, rn |-> 1, rd |-> 1]
NaN == Special("nan")
PosInf == Special("inf")
NegInf == Special("ninf")
Eps == Special("eps")
Hole == Special("hole")

\* the finite number (n/d) * Huge^e * (rn/rd)^(p/2), reduced; zero has one form
Fin(n, d, e, p, rn, rd) ==
    IF n = 0 THEN [k |-> "fin", n |-> 0, d |-> 1, e |-> 0, p |-> 0, rn |-> 1, rd |-> 1]
    ELSE LET g == GCD(Abs(n), Abs(d))
             s == IF d < 0 THEN -1 ELSE 1
         IN [k |-> "fin", n |-> s * (n \div g), d |-> Abs(d) \div g, e |-> e,
             p |-> p, rn |-> IF p = 0 THEN 1 ELSE rn, rd |-> IF p = 0 THEN 1 ELSE rd]

Rat(n, d) == Fin(n, d, 0, 0, 1, 1)
Num(n) == Rat(n, 1)
Zero == Num(0)
One == Num(1)
\* a finite double of magnitude 1e308
Huge == Fin(1, 1, 1, 0, 1, 1)

IsZero(a) == a.k = "fin" /\ a.n = 0
Sign(a) == CASE a.k = "inf" -> 1
             [] a.k = "ninf" -> -1
             [] a.k = "fin" -> (IF a.n > 0 THEN 1 ELSE IF a.n < 0 THEN -1 ELSE 0)
             [] OTHER -> 0
Signed(s) == IF s > 0 THEN PosInf ELSE NegInf

FNeg(a) == CASE a.k = "inf" -> NegInf
             [] a.k = "ninf" -> PosInf
             [] a.k = "fin" -> [a EXCEPT !.n = -a.n]
             [] OTHER -> a

\* a result beyond Number.MAX_VALUE (1.797e308) is rounded to an infinity
Overflowed(x) ==
    IF x.k = "fin" /\ x.e >= 1 /\ Abs(x.n) * 1000 > 1797 * x.d
    THEN Signed(Sign(x)) ELSE x

\* a + b in binary64: Infinity - Infinity is NaN, a Huge term absorbs a small one
FAdd(a, b) ==
    CASE a.k = "nan" \/ b.k = "nan" -> NaN
      [] a.k \in {"inf", "ninf"} /\ b.k \in {"inf", "ninf"} -> IF a.k = b.k THEN a ELSE NaN
      [] a.k \in {"inf", "ninf"} -> a
      [] b.k \in {"inf", "ninf"} -> b
      [] IsZero(a) -> b
      [] IsZero(b) -> a
      [] a.e = b.e -> Overflowed(Fin(a.n * b.d + b.n * a.d, a.d * b.d, a.e, 0, 1, 1))
      [] a.e > b.e -> a
      [] OTHER -> b

FSub(a, b) == FAdd(a, FNeg(b))

\* a * b in binary64: Huge*Huge overflows, Infinity*0 is NaN
FMul(a, b) ==
    CASE a.k = "nan" \/ b.k = "nan" -> NaN
      [] a.k \in {"inf", "ninf"} \/ b.k \in {"inf", "ninf"} ->
            IF IsZero(a) \/ IsZero(b) THEN NaN ELSE Signed(Sign(a) * Sign(b))
      [] IsZero(a) \/ IsZero(b) -> Zero
      [] a.e + b.e >= 2 -> Signed(Sign(a) * Sign(b))
      [] a.e + b.e <= -2 -> Zero
      [] OTHER -> Overflowed(Fin(a.n * b.n, a.d * b.d, a.e + b.e, 0, 1, 1))

\* a / b in binary64; b may carry a square-root factor (an irrational std)
FDiv(a, b) ==
    CASE a.k = "nan" \/ b.k = "nan" -> NaN
      [] a.k \in {"inf", "ninf"} /\ b.k \in {"inf", "ninf"} -> NaN
      [] a.k \in {"inf", "ninf"} -> Signed(Sign(a) * (IF Sign(b) < 0 THEN -1 ELSE 1))
      [] b.k \in {"inf", "ninf"} -> Zero
      [] IsZero(b) -> IF IsZero(a) THEN NaN ELSE Signed(Sign(a))
      [] IsZero(a) -> Zero
      [] a.e - b.e >= 2 -> Signed(Sign(a) * Sign(b))
      [] a.e - b.e <= -2 -> Zero
      [] OTHER -> Overflowed(Fin(a.n * b.d, a.d * b.n, a.e - b.e, -b.p, b.rn, b.rd))

\* a > 0 (false for NaN)
FGtZero(a) == a.k = "inf" \/ a.k = "eps" \/ (a.k = "fin" /\ a.n > 0)

\* Math.max(a, 1e-12): NaN is contagious; every positive number of the model
\* has a denominator far below 1e12, so it is larger than 1e-12
MaxEps(a) ==
    CASE a.k = "nan" -> NaN
      [] a.k = "inf" -> PosInf
      [] a.k = "fin" /\ a.n > 0 -> a
      [] OTHER -> Eps

ISqrt(n) == CHOOSE r \in 0..n : r * r <= n /\ (r + 1) * (r + 1) > n
IsSquare(n) == ISqrt(n) * ISqrt(n) = n

\* Math.sqrt(a) for a >= 0: exact when rational, else kept as a square-root factor
FSqrt(a) ==
    CASE a.k = "nan" \/ a.k = "ninf" -> NaN
      [] a.k = "inf" -> PosInf
      [] a.k = "eps" -> Rat(1, 1000000)
      [] a.n < 0 -> NaN
      [] a.n = 0 -> Zero
      [] IsSquare(a.n) /\ IsSquare(a.d) -> Rat(ISqrt(a.n), ISqrt(a.d))
      [] OTHER -> Fin(1, 1, 0, 1, a.n, a.d)

\* ------------------------------------------------------- JavaScript values
\* what tf.data.csv hands over for one field: number, string, undefined, null
NumberV(f) == [t |-> "number", s |-> "", f |-> f]
StringV(s) == [t |-> "string", s |-> s, f |-> Zero]
Undefined == [t |-> "undefined", s |-> "", f |-> Zero]
BoolV(b) == [t |-> "boolean", s |-> IF b THEN "true" ELSE "false", f |-> Zero]
Null == [t |-> "null", s |-> "", f |-> Zero]

\* typeof v === 'number' && Number.isFinite(v)
IsFiniteNumber(v) == v.t = "number" /\ v.f.k = "fin"

MISSING == "__MISSING__"

Digits == <<"0", "1", "2", "3", "4", "5", "6", "7", "8", "9">>

\* String(v) of a number
NumberToString(f) ==
    CASE f.k = "inf" -> "Infinity"
      [] f.k = "ninf" -> "-Infinity"
      [] f.k = "nan" -> "NaN"
      [] f = Huge -> "1e+308"
      [] f.k = "fin" /\ f.d = 1 /\ f.e = 0 /\ f.n \in 0..9 -> Digits[f.n + 1]
      [] OTHER -> "<number>"

\* String(v)
String(v) ==
    CASE v.t = "string" -> v.s
      [] v.t = "boolean" -> v.s
      [] v.t = "number" -> NumberToString(v.f)
      [] v.t = "null" -> "null"
      [] OTHER -> "undefined"

\* v === null || v === undefined || v === ''
IsMissing(v) == v.t = "null" \/ v.t = "undefined" \/ (v.t = "string" /\ v.s = "")

\* if (v === null || v === undefined || v === '') v = '__MISSING__'; v = String(v);
Token(v) == IF IsMissing(v) THEN String(StringV(MISSING)) ELSE String(v)

\* the tokens of the model in the order of Array.prototype.sort() (UTF-16 code
\* units): digits < upper case < '_' < lower case, a prefix before its extensions
TokenOrder ==
    <<"1", "1e+308", "3", "A", "B", "Infinity", "__MISSING__", "__proto__",
      "constructor", "p1", "p2">>
Rank(tok) == CHOOSE i \in 1..Len(TokenOrder) : TokenOrder[i] = tok
CodeUnitLess(a, b) == Rank(a) < Rank(b)

Range(s) == {s[i] : i \in 1..Len(s)}

\* ----------------------------------------------------- JavaScript containers
\* arr[i] with a 0-based index
At(arr, i) == arr[i + 1]

\* arr[i] = x with a 0-based index: a write past the end grows the array
RECURSIVE ArraySet(_, _, _)
ArraySet(arr, i, x) ==
    IF i < Len(arr) THEN [arr EXCEPT ![i + 1] = x]
    ELSE ArraySet(Append(arr, Hole), i, x)

\* new Array(n).fill(x)
Fill(n, x) == [i \in 1..n |-> x]

\* Set.prototype.add on a Set kept in insertion order
SetAdd(set, tok) == IF tok \in Range(set) THEN set ELSE Append(set, tok)

\* property names every plain object {} inherits from Object.prototype
ObjectPrototypeKeys == {"constructor", "__proto__"}

JInt(i) == [t |-> "int", i |-> i]
JUndefined == [t |-> "undefined", i |-> 0]
JInherited == [t |-> "object", i |-> 0]

\* map[key] on a plain object: own property, else inherited, else undefined
PropGet(map, key) ==
    IF key \in DOMAIN map THEN JInt(map[key])
    ELSE IF key \in ObjectPrototypeKeys THEN JInherited
    ELSE JUndefined

\* const map = {}; vocab.forEach((tok, idx) => map[tok] = idx)
\* (assigning a number to __proto__ creates no property)
IndexMap(vocab) ==
    [tok \in Range(vocab) \ {"__proto__"} |->
        (CHOOSE i \in 1..Len(vocab) :
            vocab[i] = tok /\ \A j \in 1..Len(vocab) : vocab[j] = tok => j <= i) - 1]

\* ------------------------------------------------------------------ inputs
\* Object.keys(xs) of a parsed CSV row: the header of the file
Header == <<"PassengerId", "Age", "HomePlanet">>

Row(pid, age, planet) == [PassengerId |-> pid, Age |-> age, HomePlanet |-> planet]

\* a row of train.csv: the features, and the column configured isLabel: true
TrainRow(pid, age, planet, label) ==
    [PassengerId |-> pid, Age |-> age, HomePlanet |-> planet, Transported |-> label]

\* ({ xs, ys }): the label column of a row of train.csv
YsOf(rec) == [Transported |-> rec.Transported]

\* rows train.csv may hold
TrainRecords ==
    { TrainRow(StringV("p1"), NumberV(Num(1)), StringV("A"), StringV("True")),
      TrainRow(StringV("p2"), NumberV(Num(3)), StringV("B"), StringV("False")),
      TrainRow(StringV("p2"), Undefined, StringV(""), Undefined),
      TrainRow(StringV("p1"), NumberV(PosInf), Null, NumberV(One)),
      TrainRow(StringV("p1"), NumberV(Huge), StringV("__proto__"), StringV("TRUE")) }

\* rows test.csv may hold
TestRecords ==
    { Row(StringV("p1"), NumberV(Num(1)), StringV("A")),
      Row(StringV("p2"), Undefined, StringV("B")),
      Row(StringV("p1"), NumberV(Num(3)), StringV("constructor")),
      Row(Undefined, NumberV(PosInf), Null) }

SeqsUpTo(S, n) == UNION {[1..m -> S] : m \in 0..n}

\* ------------------------------------------------------------ schema peek
IndexSeq(n) == [i \in 1..n |-> i - 1]

\* featureNames.forEach((name, idx) => typeof xs[name] === 'number' ? numeric : string)
\* mutant: only a finite number makes a field numeric
NumericIndicesOf_FiniteOnly(xs, names) ==
    SelectSeq(IndexSeq(Len(names)), LAMBDA idx : IsFiniteNumber(xs[At(names, idx)]))

NumericIndicesOf(xs, names) ==
    SelectSeq(IndexSeq(Len(names)), LAMBDA idx : xs[At(names, idx)].t = "number")
StringIndicesOf(xs, names) ==
    SelectSeq(IndexSeq(Len(names)), LAMBDA idx : xs[At(names, idx)].t # "number")

\* -------------------------------------------------------- statistics pass
\* one row of the pass: only finite numbers are accumulated
SumsAfter(s, xs, names, numIdx) ==
    [pos \in 1..Len(numIdx) |->
        LET v == xs[At(names, numIdx[pos])]
        IN IF IsFiniteNumber(v) THEN FAdd(s[pos], v.f) ELSE s[pos]]
SumSquaresAfter(sq, xs, names, numIdx) ==
    [pos \in 1..Len(numIdx) |->
        LET v == xs[At(names, numIdx[pos])]
        IN IF IsFiniteNumber(v) THEN FAdd(sq[pos], FMul(v.f, v.f)) ELSE sq[pos]]
\* mutant: every row is counted, a missing value as if it were 0
CountsAfter_EveryRow(c, xs, names, numIdx) == [pos \in 1..Len(numIdx) |-> c[pos] + 1]

CountsAfter(c, xs, names, numIdx) ==
    [pos \in 1..Len(numIdx) |->
        LET v == xs[At(names, numIdx[pos])]
        IN IF IsFiniteNumber(v) THEN c[pos] + 1 ELSE c[pos]]

\* mutant: the counts[i] > 0 guard is dropped (0/0)
Means_NoGuard(s, c) == [i \in 1..Len(s) |-> FDiv(s[i], Num(c[i]))]

\* sums.map((s, i) => counts[i] > 0 ? s / counts[i] : 0)
Means(s, c) == [i \in 1..Len(s) |-> IF c[i] > 0 THEN FDiv(s[i], Num(c[i])) ELSE Zero]

\* counts[i] === 0 ? 1 : Math.sqrt(Math.max(sumSquares[i]/counts[i] - m*m, 1e-12))
Stds(m, sq, c) ==
    [i \in 1..Len(m) |->
        IF c[i] = 0 THEN One
        ELSE LET meanSq == FDiv(sq[i], Num(c[i]))
                 var_ == FSub(meanSq, FMul(m[i], m[i]))
             IN FSqrt(MaxEps(var_))]

\* -------------------------------------------------------- vocabulary pass
FeatureKeys(names, strIdx) == {At(names, strIdx[k]) : k \in 1..Len(strIdx)}

\* one row of the pass: vocabSets[key].add(token)
VocabSetsAfter(sets, xs) == [key \in DOMAIN sets |-> SetAdd(sets[key], Token(xs[key]))]

\* if (!set.has('__MISSING__')) set.add('__MISSING__')
WithSentinel(sets) == [key \in DOMAIN sets |-> SetAdd(sets[key], MISSING)]

\* mutant: the vocabulary keeps the Set's insertion order
Freeze_NoSort(set) == set

\* Array.from(set).sort()
Freeze(set) == SortSeq(set, CodeUnitLess)

VocabByFeature(sets) == [key \in DOMAIN sets |-> Freeze(sets[key])]
IndexByFeature(vocabs) == [key \in DOMAIN vocabs |-> IndexMap(vocabs[key])]

\* ---------------------------------------------------------------- layout
\* stringIndices.forEach: offset = running totalDim, then totalDim += size
RECURSIVE LayoutFrom(_, _, _, _, _)
LayoutFrom(k, names, strIdx, vocabs, acc) ==
    IF k > Len(strIdx) THEN acc
    ELSE LET name == At(names, strIdx[k])
             size == Len(vocabs[name])
         IN LayoutFrom(k + 1, names, strIdx, vocabs,
                [offsets |-> (name :> [offset |-> acc.totalDim, size |-> size]) @@ acc.offsets,
                 totalDim |-> acc.totalDim + size])

\* mutant: the blocks are laid out from slot 0 (let totalDim = 0)
PlanLayout_FromZero(names, numIdx, strIdx, vocabs) ==
    LayoutFrom(1, names, strIdx, vocabs, [offsets |-> << >>, totalDim |-> 0])

\* mutant: totalDim is not advanced past the one-hot blocks
PlanLayout_NoAdvance(names, numIdx, strIdx, vocabs) ==
    [offsets |-> LayoutFrom(1, names, strIdx, vocabs,
                            [offsets |-> << >>, totalDim |-> Len(numIdx)]).offsets,
     totalDim |-> Len(numIdx)]

PlanLayout(names, numIdx, strIdx, vocabs) ==
    LayoutFrom(1, names, strIdx, vocabs, [offsets |-> << >>, totalDim |-> Len(numIdx)])

\* ------------------------------------------------------------ row encoders
\* indexByFeature[name][v] !== undefined ? indexByFeature[name][v]
\*                                       : indexByFeature[name]['__MISSING__']
LookupIndex(map, v) ==
    IF PropGet(map, v) # JUndefined THEN PropGet(map, v) ELSE PropGet(map, MISSING)

\* idx >= 0 && idx < size (false for undefined and for an inherited object)
InBlock(idx, size) == idx.t = "int" /\ idx.i >= 0 /\ idx.i < size

\* train.js: (imputed - mean) / std with the std > 0 guard
TrainNumericCell(v, mean, stdv) ==
    LET imputed == IF IsFiniteNumber(v) THEN v.f ELSE mean
        std == IF FGtZero(stdv) THEN stdv ELSE One
    IN FDiv(FSub(imputed, mean), std)

\* train.js numericIndices.forEach((colIdx, pos) => vec[pos] = ...)
RECURSIVE TrainNumericLoop(_, _, _, _)
TrainNumericLoop(vec, pos, xs, st) ==
    IF pos >= Len(st.numericIndices) THEN vec
    ELSE LET v == xs[At(st.featureNames, At(st.numericIndices, pos))]
         IN TrainNumericLoop(
                ArraySet(vec, pos, TrainNumericCell(v, At(st.numericMeans, pos),
                                                    At(st.numericStds, pos))),
                pos + 1, xs, st)

\* train.js stringIndices.forEach(i => ... vec[offset + idx] = 1)
RECURSIVE TrainOneHotLoop(_, _, _, _)
TrainOneHotLoop(vec, k, xs, st) ==
    IF k > Len(st.stringIndices) THEN vec
    ELSE LET name == At(st.featureNames, st.stringIndices[k])
             offset == st.oneHotOffsets[name].offset
             size == st.oneHotOffsets[name].size
             idx == LookupIndex(st.indexByFeature[name], Token(xs[name]))
         IN TrainOneHotLoop(
                IF InBlock(idx, size) THEN ArraySet(vec, offset + idx.i, One) ELSE vec,
                k + 1, xs, st)

\* encodeLabel: (v === true || v === 'True' || v === 'true' || v === 1) ? 1 : 0
encodeLabel(ys) ==
    LET v == ys.Transported
    IN IF \/ v = BoolV(TRUE)
          \/ v = StringV("True")
          \/ v = StringV("true")
          \/ v = NumberV(One)
       THEN 1 ELSE 0

\* the encodedDataset map callback of train.js
TrainEncode(xs, st) ==
    TrainOneHotLoop(TrainNumericLoop(Fill(st.totalDim, Zero), 0, xs, st), 1, xs, st)

\* the older train script: vec[pos] = finite ? v : numericMeans[pos]
MeanOnlyNumericCell(v, mean) == IF IsFiniteNumber(v) THEN v.f ELSE mean

\* the older train script: numericIndices.forEach((colIdx, pos) => vec[pos] = ...)
RECURSIVE MeanOnlyNumericLoop(_, _, _, _)
MeanOnlyNumericLoop(vec, pos, xs, st) ==
    IF pos >= Len(st.numericIndices) THEN vec
    ELSE LET v == xs[At(st.featureNames, At(st.numericIndices, pos))]
         IN MeanOnlyNumericLoop(
                ArraySet(vec, pos, MeanOnlyNumericCell(v, At(st.numericMeans, pos))),
                pos + 1, xs, st)

\* the encodedDataset map callback of the older train script
MeanOnlyEncode(xs, st) ==
    TrainOneHotLoop(MeanOnlyNumericLoop(Fill(st.totalDim, Zero), 0, xs, st), 1, xs, st)

\* the two train scripts of the repository: train.js standardizes the numeric
\* features, its older version only mean-imputes them
Variants == {"normalizing", "meanOnly"}

\* the map callback of the script that is run
EncodeBy(v, xs, st) == IF v = "meanOnly" THEN MeanOnlyEncode(xs, st) ELSE TrainEncode(xs, st)

\* a field the parsed artifact holds (destructuring yields undefined otherwise)
Has(art, field) == field \in DOMAIN art

\* prediction.js: vec[pos] = finite ? v : numericMeans[pos]
RECURSIVE InferNumericLoop(_, _, _, _)
InferNumericLoop(vec, pos, xs, art) ==
    IF pos >= Len(art.numericIndices) THEN vec
    ELSE LET v == xs[At(art.featureNames, At(art.numericIndices, pos))]
         IN InferNumericLoop(
                ArraySet(vec, pos, IF IsFiniteNumber(v) THEN v.f
                                   ELSE At(art.numericMeans, pos)),
                pos + 1, xs, art)

\* (map && map[v] !== undefined) ? map[v] : (map ? map['__MISSING__'] : -1)
InferLookupIndex(maps, name, v) ==
    IF name \in DOMAIN maps THEN LookupIndex(maps[name], v) ELSE JInt(-1)

\* prediction.js stringIndices.forEach(i => ...)
RECURSIVE InferOneHotLoop(_, _, _, _, _)
InferOneHotLoop(vec, k, xs, art, maps) ==
    IF k > Len(art.stringIndices) THEN vec
    ELSE LET name == At(art.featureNames, art.stringIndices[k])
         IN IF name \notin DOMAIN art.oneHotOffsets
            THEN InferOneHotLoop(vec, k + 1, xs, art, maps)
            ELSE LET offset == art.oneHotOffsets[name].offset
                     size == art.oneHotOffsets[name].size
                     idx == InferLookupIndex(maps, name, Token(xs[name]))
                 IN InferOneHotLoop(
                        IF InBlock(idx, size) THEN ArraySet(vec, offset + idx.i, One)
                        ELSE vec,
                        k + 1, xs, art, maps)

\* encodeRow of prediction.js
encodeRow(xs, art, maps) ==
    InferOneHotLoop(InferNumericLoop(Fill(art.totalDim, Zero), 0, xs, art), 1, xs, art, maps)

\* encodeRow throws a TypeError: numericMeans[pos] is read, for a value that is
\* not a finite number, from an artifact that has no numericMeans
encodeRowThrows(xs, art) ==
    /\ ~Has(art, "numericMeans")
    /\ \E pos \in 0..(Len(art.numericIndices) - 1) :
          ~IsFiniteNumber(xs[At(art.featureNames, At(art.numericIndices, pos))])

\* ----------------------------------------------------------- artifact file
JNull == Special("null")

\* JSON.stringify of a number: NaN and the infinities are written as null
JSONNumber(f) == IF f.k = "fin" THEN f ELSE JNull

\* JSON.stringify(artifacts, null, 2): the JSON document written to disk
JSONStringify(a) ==
    [key \in DOMAIN a |->
        IF key \in {"numericMeans", "numericStds"}
        THEN [i \in 1..Len(a[key]) |-> JSONNumber(a[key][i])]
        ELSE a[key]]

\* JSON.parse of the document: the value tree it denotes
JSONParse(doc) == doc

NoFile == [exists |-> FALSE, doc |-> << >>]

\* ------------------------------------------------------------- tensors
\* a value stored in a float32 tensor: a Huge magnitude overflows to Infinity,
\* null (a mean that JSON could not hold) is converted to 0
Float32(f) ==
    CASE f.k = "null" -> Zero
      [] f.k = "fin" /\ f.e >= 1 -> Signed(Sign(f))
      [] OTHER -> f

\* tf.tensor2d(featureRows, [featureRows.length, totalDim])
Tensor2d(rows) == [i \in 1..Len(rows) |-> [j \in 1..Len(rows[i]) |-> Float32(rows[i][j])]]

\* mutant: the tensor is handed to the model as built
AdjustRow_Unadjusted(row, dim, modelDim) == row

\* slice([0, 0], [-1, modelInputDim]) or concat with zeros, for one row
AdjustRow(row, dim, modelDim) ==
    IF modelDim = dim THEN row
    ELSE IF dim > modelDim THEN SubSeq(row, 1, modelDim)
    ELSE row \o Fill(modelDim - dim, Zero)

\* input widths the model file on disk may have, relative to the trained one
ModelDimDeltas == {-1, 0, 1}

\* probabilities model.predict may return
Probabilities == {Rat(1, 4), Rat(1, 2)}

\* mutant: the threshold is strict
AtLeastHalf_Strict(p) == p.k = "fin" /\ 2 * p.n > p.d

\* p >= 0.5 (false for NaN)
AtLeastHalf(p) == p.k = "fin" /\ 2 * p.n >= p.d

\* `${pid},${predictions[i] ? 'True' : 'False'}`
OutLine(pid, p) == [pid |-> pid, label |-> IF AtLeastHalf(p) THEN "True" ELSE "False"]

\* ------------------------------------------------------------------- state
VARIABLES
    trainCsv,        \* the rows of data/train.csv
    rowSource,       \* what a second iteration of a dataset object reads
    variant,         \* which train script is run
    pc,              \* position of the running script (train.js, then prediction.js)
    cursor,          \* records the current pass of train.js has been handed
    consumed,        \* records handed out from the current rawDataset object
    debugPeeked,     \* the un-awaited debug peek has taken its record
    featureNames, numericIndices, stringIndices,
    sums, sumSquares, counts,
    numericMeans, numericStds,
    vocabSets, vocabByFeature, indexByFeature,
    oneHotOffsets, totalDim,
    encodedRows,     \* the vectors the encodedDataset map has produced
    encodedLabels,   \* the ys the encodedDataset map has produced
    disk,            \* model_artifacts/preprocessing.json
    modelFile,       \* model_artifacts/model
    corruption,      \* what was done to preprocessing.json after it was written
    art,             \* prediction.js: the parsed artifacts
    maps,            \* prediction.js: indexByFeature
    modelLoaded, modelInputDim, warned,
    testRows,        \* the rows of data/test.csv read so far
    passengerIds, featureRows, featTensor,
    probArray,       \* what model.predict returned, one probability per row
    submission,      \* data/submission.csv
    error,           \* what main().catch received
    stringVocabSets,     \* tensor pipeline: one Set per string column
    stringVocabularies,  \* tensor pipeline: Array.from of each Set
    stringIndexMaps,     \* tensor pipeline: one Map token -> index per column
    pendingBatches,      \* batches whose batch.xs.array() promise has not settled
    encStr               \* encodeStringBatch of the previewed merged batch

vars == <<trainCsv, rowSource, variant, pc, cursor, consumed, debugPeeked,
          featureNames, numericIndices, stringIndices,
          sums, sumSquares, counts, numericMeans, numericStds,
          vocabSets, vocabByFeature, indexByFeature, oneHotOffsets, totalDim,
          encodedRows, encodedLabels, disk, modelFile, corruption, art, maps,
          modelLoaded, modelInputDim, warned, testRows, passengerIds,
          featureRows, featTensor, submission, probArray, error,
          stringVocabSets, stringVocabularies, stringIndexMaps, pendingBatches,
          encStr>>

schemaVars == <<featureNames, numericIndices, stringIndices>>
statVars == <<sums, sumSquares, counts, numericMeans, numericStds>>
vocabVars == <<vocabSets, vocabByFeature, indexByFeature>>
layoutVars == <<oneHotOffsets, totalDim>>
fileVars == <<disk, modelFile, corruption>>
inferVars == <<art, maps, modelLoaded, modelInputDim, warned, testRows,
               passengerIds, featureRows, featTensor, submission, probArray, error>>

tensorVars == <<stringVocabSets, stringVocabularies, stringIndexMaps,
                pendingBatches, encStr>>

NoSubmission == [written |-> FALSE, lines |-> << >>]

\* the state before either script has run
InitState ==
    /\ trainCsv \in SeqsUpTo(TrainRecords, MaxRows)
    /\ variant = "normalizing"
    /\ pc = "idle"
    /\ cursor = 0 /\ consumed = 0 /\ debugPeeked = FALSE
    /\ featureNames = << >> /\ numericIndices = << >> /\ stringIndices = << >>
    /\ sums = << >> /\ sumSquares = << >> /\ counts = << >>
    /\ numericMeans = << >> /\ numericStds = << >>
    /\ vocabSets = << >> /\ vocabByFeature = << >> /\ indexByFeature = << >>
    /\ oneHotOffsets = << >> /\ totalDim = 0
    /\ encodedRows = << >> /\ encodedLabels = << >>
    /\ disk = NoFile
    /\ modelFile = [exists |-> FALSE, inputDim |-> 0]
    /\ corruption = "none"
    /\ art = << >> /\ maps = << >>
    /\ modelLoaded = FALSE /\ modelInputDim = 0 /\ warned = FALSE
    /\ testRows = << >> /\ passengerIds = << >> /\ featureRows = << >>
    /\ featTensor = << >>
    /\ probArray = << >>
    /\ submission = NoSubmission
    /\ error = "none"
    /\ stringVocabSets = << >> /\ stringVocabularies = << >>
    /\ stringIndexMaps = << >> /\ pendingBatches = << >> /\ encStr = << >>

\* tf.data.csv: every iteration of a Dataset opens the file again
Init == InitState /\ rowSource = "reiterable"

\* the row source of the design: one-shot, consumed destructively by iteration
InitOneShot == InitState /\ rowSource = "oneshot"

\* the preprocessing state the encodedDataset callback closes over
TrainSt ==
    [featureNames |-> featureNames, numericIndices |-> numericIndices,
     stringIndices |-> stringIndices, numericMeans |-> numericMeans,
     numericStds |-> numericStds, oneHotOffsets |-> oneHotOffsets,
     indexByFeature |-> indexByFeature, totalDim |-> totalDim]

\* const artifacts = { featureNames, ..., totalDim } of the older train script
MeanOnlyArtifacts ==
    [featureNames |-> featureNames, numericIndices |-> numericIndices,
     stringIndices |-> stringIndices, numericMeans |-> numericMeans,
     vocabByFeature |-> vocabByFeature,
     oneHotOffsets |-> oneHotOffsets, totalDim |-> totalDim]

\* const artifacts = { featureNames, ..., totalDim }
Artifacts ==
    IF variant = "meanOnly" THEN MeanOnlyArtifacts
    ELSE [featureNames |-> featureNames, numericIndices |-> numericIndices,
          stringIndices |-> stringIndices, numericMeans |-> numericMeans,
          numericStds |-> numericStds, vocabByFeature |-> vocabByFeature,
          oneHotOffsets |-> oneHotOffsets, totalDim |-> totalDim]

\* ---------------------------------------------------------------- train.js
\* the record the running iterator hands out next: an iterator of a re-iterable
\* dataset reads the file from its start, an iterator of a one-shot row source
\* continues where the last reader of rawDataset stopped
NextIndex == IF rowSource = "oneshot" THEN consumed + 1 ELSE cursor + 1
HasNext == NextIndex <= Len(trainCsv)

\* node train.js: rawDataset = makeDataset(); the debug peek is started, not awaited
TrainStart ==
    /\ pc = "idle"
    /\ \E v \in Variants : variant' = v
    /\ consumed' = 0
    /\ debugPeeked' = FALSE
    /\ pc' = "t_peek"
    /\ UNCHANGED <<trainCsv, rowSource, tensorVars,
                   cursor, schemaVars, statVars, vocabVars, layoutVars,
                   encodedRows, encodedLabels, fileVars, inferVars>>

\* rawDataset.take(1).forEachAsync((d) => console.log(d)), whose promise nobody
\* awaits: it takes its record while the schema peek or the statistics pass runs
DebugPeek ==
    /\ pc \in {"t_peek", "t_stats"}
    /\ ~debugPeeked
    /\ debugPeeked' = TRUE
    /\ LET idx == IF rowSource = "oneshot" THEN consumed + 1 ELSE 1
       IN consumed' = IF idx <= Len(trainCsv) THEN consumed + 1 ELSE consumed
    /\ UNCHANGED <<trainCsv, rowSource, tensorVars,
                   variant, pc, cursor, schemaVars, statVars,
                   vocabVars, layoutVars, encodedRows, encodedLabels, fileVars,
                   inferVars>>

\* await rawDataset.take(1).forEachAsync(...); the accumulators are allocated
SchemaPeek ==
    /\ pc = "t_peek"
    /\ LET names == IF HasNext THEN Header ELSE << >>
           numIdx == IF HasNext THEN NumericIndicesOf(trainCsv[NextIndex], names) ELSE << >>
           strIdx == IF HasNext THEN StringIndicesOf(trainCsv[NextIndex], names) ELSE << >>
       IN /\ featureNames' = names
          /\ numericIndices' = numIdx
          /\ stringIndices' = strIdx
          /\ sums' = Fill(Len(numIdx), Zero)
          /\ sumSquares' = IF variant = "meanOnly" THEN << >> ELSE Fill(Len(numIdx), Zero)
          /\ counts' = Fill(Len(numIdx), 0)
    /\ consumed' = IF HasNext THEN consumed + 1 ELSE consumed
    /\ cursor' = 0
    /\ pc' = "t_stats"
    /\ UNCHANGED <<trainCsv, rowSource, tensorVars,
                   variant, debugPeeked, numericMeans, numericStds,
                   vocabVars, layoutVars, encodedRows, encodedLabels, fileVars,
                   inferVars>>

\* one callback of await rawDataset.forEachAsync(({ xs }) => ...) (statistics)
StatsRow ==
    /\ pc = "t_stats"
    /\ HasNext
    /\ LET xs == trainCsv[NextIndex]
       IN /\ sums' = SumsAfter(sums, xs, featureNames, numericIndices)
          /\ sumSquares' = IF variant = "meanOnly" THEN sumSquares
                           ELSE SumSquaresAfter(sumSquares, xs, featureNames, numericIndices)
          /\ counts' = CountsAfter(counts, xs, featureNames, numericIndices)
    /\ cursor' = cursor + 1
    /\ consumed' = consumed + 1
    /\ UNCHANGED <<trainCsv, rowSource, tensorVars,
                   variant, pc, debugPeeked, schemaVars,
                   numericMeans, numericStds, vocabVars, layoutVars, encodedRows,
                   encodedLabels, fileVars, inferVars>>

\* numericMeans, numericStds; rawDataset = makeDataset(); vocabSets seeded
StatsDone ==
    /\ pc = "t_stats"
    /\ ~HasNext
    /\ debugPeeked
    /\ numericMeans' = Means(sums, counts)
    /\ numericStds' = IF variant = "meanOnly" THEN << >>
                       ELSE Stds(Means(sums, counts), sumSquares, counts)
    /\ vocabSets' = [key \in FeatureKeys(featureNames, stringIndices) |-> << >>]
    /\ cursor' = 0
    /\ consumed' = 0
    /\ pc' = "t_vocab"
    /\ UNCHANGED <<trainCsv, rowSource, tensorVars,
                   variant, debugPeeked, schemaVars, sums,
                   sumSquares, counts, vocabByFeature, indexByFeature, layoutVars,
                   encodedRows, encodedLabels, fileVars, inferVars>>

\* one callback of await rawDataset.forEachAsync(({ xs }) => ...) (vocabulary)
VocabRow ==
    /\ pc = "t_vocab"
    /\ HasNext
    /\ vocabSets' = VocabSetsAfter(vocabSets, trainCsv[NextIndex])
    /\ cursor' = cursor + 1
    /\ consumed' = consumed + 1
    /\ UNCHANGED <<trainCsv, rowSource, tensorVars,
                   variant, pc, debugPeeked, schemaVars, statVars,
                   vocabByFeature, indexByFeature, layoutVars, encodedRows,
                   encodedLabels, fileVars, inferVars>>

\* sentinel added, sets sorted into vocabByFeature, indexByFeature built
FreezeVocab ==
    /\ pc = "t_vocab"
    /\ ~HasNext
    /\ vocabSets' = WithSentinel(vocabSets)
    /\ vocabByFeature' = VocabByFeature(WithSentinel(vocabSets))
    /\ indexByFeature' = IndexByFeature(VocabByFeature(WithSentinel(vocabSets)))
    /\ pc' = "t_layout"
    /\ UNCHANGED <<trainCsv, rowSource, tensorVars,
                   variant, cursor, consumed, debugPeeked,
                   schemaVars, statVars, layoutVars, encodedRows, encodedLabels,
                   fileVars, inferVars>>

\* oneHotOffsets, totalDim; rawDataset = makeDataset()
Layout ==
    /\ pc = "t_layout"
    /\ LET plan == PlanLayout(featureNames, numericIndices, stringIndices, vocabByFeature)
       IN /\ oneHotOffsets' = plan.offsets
          /\ totalDim' = plan.totalDim
    /\ cursor' = 0
    /\ consumed' = 0
    /\ pc' = "t_encode"
    /\ UNCHANGED <<trainCsv, rowSource, tensorVars,
                   variant, debugPeeked, schemaVars, statVars,
                   vocabVars, encodedRows, encodedLabels, fileVars, inferVars>>

\* the encodedDataset map callback on the next row
EncodeTrainRow ==
    /\ pc = "t_encode"
    /\ HasNext
    /\ encodedRows' = Append(encodedRows, EncodeBy(variant, trainCsv[NextIndex], TrainSt))
    /\ encodedLabels' = Append(encodedLabels, <<encodeLabel(YsOf(trainCsv[NextIndex]))>>)
    /\ cursor' = cursor + 1
    /\ consumed' = consumed + 1
    /\ UNCHANGED <<trainCsv, rowSource, tensorVars,
                   variant, pc, debugPeeked, schemaVars, statVars,
                   vocabVars, layoutVars, fileVars, inferVars>>

\* createModel(totalDim); await model.fitDataset(encodedDataset, ...)
Fit ==
    /\ pc = "t_encode"
    /\ ~HasNext
    /\ pc' = "t_persist"
    /\ UNCHANGED <<trainCsv, rowSource, tensorVars,
                   variant, cursor, consumed, debugPeeked,
                   schemaVars, statVars, vocabVars, layoutVars,
                   encodedRows, encodedLabels, fileVars, inferVars>>

\* fs.writeFileSync('../model_artifacts/preprocessing.json', JSON.stringify(artifacts))
Persist ==
    /\ pc = "t_persist"
    /\ disk' = [exists |-> TRUE, doc |-> JSONStringify(Artifacts)]
    /\ pc' = "t_save"
    /\ UNCHANGED <<trainCsv, rowSource, tensorVars,
                   variant, cursor, consumed, debugPeeked,
                   schemaVars, statVars, vocabVars, layoutVars,
                   encodedRows, encodedLabels, modelFile, corruption, inferVars>>

\* await model.save('file://../model_artifacts/model')
SaveModel ==
    /\ pc = "t_save"
    /\ modelFile' = [exists |-> TRUE, inputDim |-> totalDim]
    /\ pc' = "done"
    /\ UNCHANGED <<trainCsv, rowSource, tensorVars,
                   variant, cursor, consumed, debugPeeked,
                   schemaVars, statVars, vocabVars, layoutVars,
                   encodedRows, encodedLabels, disk, corruption, inferVars>>

trainVars == <<trainCsv, rowSource, tensorVars, variant, cursor, consumed, debugPeeked,
               schemaVars, statVars, vocabVars, layoutVars,
               encodedRows, encodedLabels>>

\* ----------------------------------------------------------- prediction.js
\* mutant: the existence check never fires
ArtifactsMissing_Never(file) == FALSE

\* !fs.existsSync(artifactsPath)
ArtifactsMissing(file) == ~file.exists

\* Object.entries(vocabByFeature).forEach(([feat, vocab]) => ... map[tok] = i ...)
RebuildIndexMaps(vocabs) == [feat \in DOMAIN vocabs |-> IndexMap(vocabs[feat])]

\* xs.PassengerId ?? ''
PassengerIdOf(xs) ==
    IF xs.PassengerId.t \in {"undefined", "null"} THEN StringV("") ELSE xs.PassengerId

\* outLines: the header, then one line per prediction
OutLines(pids, probs) ==
    <<[pid |-> "PassengerId", label |-> "Transported"]>> \o
    [i \in 1..Len(probs) |-> OutLine(String(pids[i]), probs[i])]

\* node prediction.js
InferStart ==
    /\ pc \in {"idle", "done"}
    /\ pc' = "i_check"
    /\ UNCHANGED <<trainVars, fileVars, inferVars>>

\* existsSync check, throw, or JSON.parse(fs.readFileSync(...)) and destructuring
LoadArtifacts ==
    /\ pc = "i_check"
    /\ IF ArtifactsMissing(disk)
       THEN /\ error' = "MissingArtifacts"
            /\ pc' = "i_failed"
            /\ art' = art
       ELSE /\ art' = JSONParse(disk.doc)
            /\ pc' = "i_index"
            /\ error' = error
    /\ UNCHANGED <<trainVars, fileVars, maps, modelLoaded, modelInputDim, warned,
                   testRows, passengerIds, featureRows, featTensor, submission, probArray>>

\* rebuild the index maps; Object.entries(undefined) throws a TypeError
RebuildIndex ==
    /\ pc = "i_index"
    /\ IF Has(art, "vocabByFeature")
       THEN /\ maps' = RebuildIndexMaps(art.vocabByFeature)
            /\ pc' = "i_model"
            /\ error' = error
       ELSE /\ error' = "TypeError"
            /\ pc' = "i_failed"
            /\ maps' = maps
    /\ UNCHANGED <<trainVars, fileVars, art, modelLoaded, modelInputDim, warned,
                   testRows, passengerIds, featureRows, featTensor, submission, probArray>>

\* tf.loadLayersModel; the warning when the widths differ
LoadModel ==
    /\ pc = "i_model"
    /\ modelFile.exists
    /\ \E delta \in ModelDimDeltas :
          /\ delta = 0 \/ modelFile.inputDim + delta >= 1
          /\ modelInputDim' = modelFile.inputDim + delta
          /\ warned' = (modelFile.inputDim + delta # art.totalDim)
    /\ modelLoaded' = TRUE
    /\ pc' = "i_rows"
    /\ UNCHANGED <<trainVars, fileVars, art, maps, testRows, passengerIds,
                   featureRows, featTensor, submission, probArray, error,
          stringVocabSets, stringVocabularies, stringIndexMaps, pendingBatches,
          encStr>>

\* one callback of await testDataset.forEachAsync(xs => ...)
InferRow(xs) ==
    /\ pc = "i_rows"
    /\ Len(testRows) < MaxTestRows
    /\ testRows' = Append(testRows, xs)
    /\ passengerIds' = Append(passengerIds, PassengerIdOf(xs))
    /\ IF encodeRowThrows(xs, art)
       THEN /\ error' = "TypeError"
            /\ pc' = "i_failed"
            /\ featureRows' = featureRows
       ELSE /\ featureRows' = Append(featureRows, encodeRow(xs, art, maps))
            /\ pc' = pc
            /\ error' = error
    /\ UNCHANGED <<trainVars, fileVars, art, maps, modelLoaded, modelInputDim, warned,
                   featTensor, submission, probArray>>

\* the end of test.csv: exit when no row was collected, else tf.tensor2d
Collected ==
    /\ pc = "i_rows"
    /\ IF Len(featureRows) = 0
       THEN /\ pc' = "i_norows"
            /\ featTensor' = featTensor
       ELSE /\ featTensor' = Tensor2d(featureRows)
            /\ pc' = "i_adjust"
    /\ UNCHANGED <<trainVars, fileVars, art, maps, modelLoaded, modelInputDim, warned,
                   testRows, passengerIds, featureRows, submission, probArray, error>>

\* if (modelInputDim !== totalDim) slice or pad
Adjust ==
    /\ pc = "i_adjust"
    /\ featTensor' = [i \in 1..Len(featTensor) |->
                         AdjustRow(featTensor[i], art.totalDim, modelInputDim)]
    /\ pc' = "i_predict"
    /\ UNCHANGED <<trainVars, fileVars, art, maps, modelLoaded, modelInputDim, warned,
                   testRows, passengerIds, featureRows, submission, probArray, error>>

\* model.predict, threshold, fs.writeFileSync(outPath, ...)
PredictAndWrite ==
    /\ pc = "i_predict"
    /\ \E probs \in [1..Len(featTensor) -> Probabilities] :
          /\ probArray' = probs
          /\ submission' = [written |-> TRUE, lines |-> OutLines(passengerIds, probs)]
    /\ pc' = "i_done"
    /\ UNCHANGED <<trainVars, fileVars, art, maps, modelLoaded, modelInputDim, warned,
                   testRows, passengerIds, featureRows, featTensor, error>>

\* ------------------------------------------------------------ environment
CorruptionKinds == {"no_numericMeans", "no_vocabByFeature", "totalDim_plus_1"}

Without(doc, field) == [key \in (DOMAIN doc) \ {field} |-> doc[key]]

\* preprocessing.json after an edit that leaves it structurally invalid
Corrupted(doc, kind) ==
    CASE kind = "no_numericMeans" -> Without(doc, "numericMeans")
      [] kind = "no_vocabByFeature" -> Without(doc, "vocabByFeature")
      [] OTHER -> [doc EXCEPT !.totalDim = @ + 1]

\* the artifact file is damaged between the training run and the inference run
CorruptArtifact ==
    /\ pc = "done"
    /\ disk.exists
    /\ corruption = "none"
    /\ \E kind \in CorruptionKinds :
          /\ disk' = [exists |-> TRUE, doc |-> Corrupted(disk.doc, kind)]
          /\ corruption' = kind
    /\ UNCHANGED <<pc, trainVars, modelFile, inferVars>>

\* ------------------------------------------- tensor pipeline (older script)
\* what this script leaves alone: the state of train.js and of prediction.js
otherScriptVars == <<trainCsv, rowSource, consumed, debugPeeked, statVars, vocabVars,
                     layoutVars, encodedRows, encodedLabels, fileVars, inferVars>>

TENSOR_MISSING == "___MISSING___"

\* the rows of one batch (.batch(32) in the script)
BatchSize == 1

\* stringDataset: the strArray the map callback builds from one row
StrArray(xs, names, strIdx) ==
    [k \in 1..Len(strIdx) |->
        LET v == xs[At(names, strIdx[k])]
        IN IF v.t = "string" THEN v.s
           ELSE IF v.t \in {"null", "undefined"} THEN TENSOR_MISSING
           ELSE String(v)]

\* the batch that starts after `from` rows
BatchRows(rows, from) ==
    LET to == IF from + BatchSize <= Len(rows) THEN from + BatchSize ELSE Len(rows)
    IN [i \in 1..(to - from) |-> rows[from + i]]

StringBatch(rows, from, names, strIdx) ==
    LET batch == BatchRows(rows, from)
    IN [i \in 1..Len(batch) |-> StrArray(batch[i], names, strIdx)]

\* val === null || val === undefined || val === '' ? '___MISSING___' : String(val)
BatchToken(val) == IF val = "" THEN TENSOR_MISSING ELSE val

\* row.forEach((val, c) => stringVocabSets[c].add(token))
AddRow(sets, row) == [c \in 1..Len(sets) |-> SetAdd(sets[c], BatchToken(row[c]))]

\* rows.forEach(row => ...)
RECURSIVE AddRows(_, _)
AddRows(sets, rows) ==
    IF rows = << >> THEN sets ELSE AddRows(AddRow(sets, Head(rows)), Tail(rows))

\* const m = new Map(); vocab.forEach((tok, i) => m.set(tok, i))
MapOf(vocab) ==
    [tok \in Range(vocab) |-> CHOOSE i \in 0..(Len(vocab) - 1) : vocab[i + 1] = tok]

\* encodeStringBatch: idx === undefined ? 0 : idx
encodeStringBatch(arr, indexMaps) ==
    [r \in 1..Len(arr) |->
        [c \in 1..Len(arr[r]) |->
            LET token == BatchToken(arr[r][c])
            IN IF token \in DOMAIN indexMaps[c] THEN indexMaps[c][token] ELSE 0]]

\* node on the tensor script: csvDataset = tf.data.csv(...); the debug peek only logs
TensorStart ==
    /\ pc = "idle"
    /\ variant' = "tensor"
    /\ pc' = "p_peek"
    /\ cursor' = 0
    /\ stringVocabSets' = << >> /\ stringVocabularies' = << >>
    /\ stringIndexMaps' = << >> /\ pendingBatches' = << >> /\ encStr' = << >>
    /\ UNCHANGED <<otherScriptVars, schemaVars>>

\* await csvDataset.take(1).forEachAsync(({ xs }) => ...): names and column kinds
TensorSchemaPeek ==
    /\ pc = "p_peek"
    /\ LET any == Len(trainCsv) >= 1
       IN /\ featureNames' = IF any THEN Header ELSE << >>
          /\ numericIndices' = IF any THEN NumericIndicesOf(trainCsv[1], Header) ELSE << >>
          /\ stringIndices' = IF any THEN StringIndicesOf(trainCsv[1], Header) ELSE << >>
    /\ pc' = "p_numeric"
    /\ UNCHANGED <<otherScriptVars, tensorVars, variant, cursor>>

\* the numeric passes: tf.concat(collected, 0) throws when no batch was collected;
\* then const stringVocabSets = new Array(stringIndices.length)...map(() => new Set())
TensorCollectNumeric ==
    /\ pc = "p_numeric"
    /\ IF Len(trainCsv) = 0
       THEN pc' = "p_failed" /\ UNCHANGED stringVocabSets
       ELSE pc' = "p_vocab" /\ stringVocabSets' = Fill(Len(stringIndices), << >>)
    /\ cursor' = 0
    /\ UNCHANGED <<otherScriptVars, schemaVars, variant, stringVocabularies,
                   stringIndexMaps, pendingBatches, encStr>>

\* stringDataset.forEachAsync(batch => batch.xs.array().then(...)): the driver
\* hands the next batch to the callback, which starts array() and returns its
\* promise; the driver goes on to the next batch without awaiting it
TensorDeliverBatch ==
    /\ pc = "p_vocab"
    /\ cursor < Len(trainCsv)
    /\ LET batch == StringBatch(trainCsv, cursor, featureNames, stringIndices)
       IN /\ pendingBatches' = Append(pendingBatches, batch)
          /\ cursor' = cursor + Len(batch)
    /\ UNCHANGED <<otherScriptVars, schemaVars, variant, pc, stringVocabSets,
                   stringVocabularies, stringIndexMaps, encStr>>

\* .then(rows => rows.forEach(...)): the promise of the oldest outstanding array()
\* settles and its rows are added to the Sets, wherever run() is by then
TensorBatchCallback ==
    /\ pendingBatches # << >>
    /\ stringVocabSets' = AddRows(stringVocabSets, Head(pendingBatches))
    /\ pendingBatches' = Tail(pendingBatches)
    /\ UNCHANGED <<otherScriptVars, schemaVars, variant, pc, cursor,
                   stringVocabularies, stringIndexMaps, encStr>>

\* the promise of forEachAsync resolves when the iterator is exhausted:
\* stringVocabularies = stringVocabSets.map(s => Array.from(s)); stringIndexMaps
TensorFreeze ==
    /\ pc = "p_vocab"
    /\ cursor >= Len(trainCsv)
    /\ stringVocabularies' = stringVocabSets
    /\ stringIndexMaps' = [c \in 1..Len(stringVocabSets) |-> MapOf(stringVocabSets[c])]
    /\ cursor' = 0
    /\ pc' = "p_merge"
    /\ UNCHANGED <<otherScriptVars, schemaVars, variant, stringVocabSets,
                   pendingBatches, encStr>>

\* await mergedDataset.take(1).forEachAsync(...): the first batch of
\* freshStringDataset goes through encodeStringBatch; then the tensors are disposed
TensorPreview ==
    /\ pc = "p_merge"
    /\ encStr' = encodeStringBatch(StringBatch(trainCsv, 0, featureNames, stringIndices),
                                   stringIndexMaps)
    /\ pc' = "p_done"
    /\ UNCHANGED <<otherScriptVars, schemaVars, variant, cursor, stringVocabSets,
                   stringVocabularies, stringIndexMaps, pendingBatches>>

\* ------------------------------------------------------------ specification
Next ==
    \/ TrainStart
    \/ DebugPeek
    \/ SchemaPeek
    \/ StatsRow
    \/ StatsDone
    \/ VocabRow
    \/ FreezeVocab
    \/ Layout
    \/ EncodeTrainRow
    \/ Fit
    \/ Persist
    \/ SaveModel
    \/ InferStart
    \/ LoadArtifacts
    \/ RebuildIndex
    \/ LoadModel
    \/ \E xs \in TestRecords : InferRow(xs)
    \/ Collected
    \/ Adjust
    \/ PredictAndWrite

Spec == Init /\ [][Next]_vars

\* the same runs, with the artifact file exposed to damage between them
NextCorrupt == Next \/ CorruptArtifact

SpecCorrupt == Init /\ [][NextCorrupt]_vars

\* the same program over a one-shot row source
SpecOneShot == InitOneShot /\ [][Next]_vars

\* the scripts of the repository, the tensor pipeline included
NextTensor ==
    \/ Next
    \/ TensorStart
    \/ TensorSchemaPeek
    \/ TensorCollectNumeric
    \/ TensorDeliverBatch
    \/ TensorBatchCallback
    \/ TensorFreeze
    \/ TensorPreview

SpecTensor == Init /\ [][NextTensor]_vars

\* ------------------------------------------------------------------ claims
\* every vector either script has built so far
TrainVectors == Range(encodedRows)
InferVectors == Range(featureRows)
AllVectors == TrainVectors \cup InferVectors

\* prediction.js has parsed the artifact file
LoadedPcs == {"i_index", "i_model", "i_rows", "i_adjust", "i_predict", "i_done", "i_norows"}

\* C1: every vector built by the training map and by encodeRow, from an artifact
\* a training run wrote, has length exactly totalDim: no write landed outside
\* [0, totalDim) (such a write would have grown the array).
C1_LengthIsTotalDim ==
    \A vec \in AllVectors : Len(vec) = totalDim /\ Hole \notin Range(vec)

C1_Witness ==
    /\ Len(encodedRows) = 2 /\ Len(featureRows) = 2
    /\ totalDim > Len(featureNames)
    /\ Len(numericIndices) = 1
    /\ \E i \in 1..2 : ~IsFiniteNumber(testRows[i].Age)
    /\ \E i \in 1..2 : Token(testRows[i].HomePlanet) \notin Range(vocabByFeature["HomePlanet"])

\* the cells of vec inside the block [offset, offset + size)
BlockCells(vec, o) == [j \in 1..o.size |-> At(vec, o.offset + j - 1)]
OnesIn(cells) == {j \in 1..Len(cells) : cells[j] = One}
ExactlyOneHot(vec, o) ==
    /\ Cardinality(OnesIn(BlockCells(vec, o))) = 1
    /\ \A j \in 1..o.size : BlockCells(vec, o)[j] \in {Zero, One}

\* C2: for every categorical feature and every raw value, the encoded vector has
\* exactly one cell equal to 1 inside the feature's block and 0 in the others.
C2_ExactlyOneHot ==
    \A vec \in AllVectors : \A name \in DOMAIN oneHotOffsets :
        ExactlyOneHot(vec, oneHotOffsets[name])

\* C3: the vector train.js builds for a record equals, cell for cell, the vector
\* encodeRow builds for the same record from the artifact that run persisted.
C3_TrainEqualsInference ==
    \A i \in 1..Len(featureRows) : featureRows[i] = EncodeBy(variant, testRows[i], TrainSt)

\* the raw value of the numeric feature at slot pos (0-based) in a record
NumericRaw(xs, pos) == xs[At(featureNames, At(numericIndices, pos))]

\* the numeric slots that saw no finite value in the statistics pass
EmptySlots == {pos \in 0..(Len(numericIndices) - 1) : At(counts, pos) = 0}

\* C4 as stated: a numeric feature with count = 0 encodes to 0 for every raw
\* value, a finite number included.
C4_AlwaysZero ==
    \A pos \in EmptySlots :
        /\ \A i \in 1..Len(encodedRows) : At(encodedRows[i], pos) = Zero
        /\ \A i \in 1..Len(featureRows) : At(featureRows[i], pos) = Zero

\* what the no-op transform (mean 0, std 1) leaves of a raw value
NoOpCell(v) == IF IsFiniteNumber(v) THEN v.f ELSE Zero

\* C4 amended: a numeric feature with count = 0 encodes to 0 for every raw
\* value that is not a finite number, and to the raw value itself, unchanged,
\* for a finite number (mean 0 and std 1 make the transform a no-op).
C4_NoOpTransform ==
    \A pos \in EmptySlots :
        /\ \A i \in 1..Len(encodedRows) :
              At(encodedRows[i], pos) = NoOpCell(NumericRaw(trainCsv[i], pos))
        /\ \A i \in 1..Len(featureRows) :
              At(featureRows[i], pos) = NoOpCell(NumericRaw(testRows[i], pos))

C4_Witness ==
    /\ EmptySlots # {}
    /\ Len(encodedRows) >= 1
    /\ \E i \in 1..Len(featureRows) : \E pos \in EmptySlots :
          /\ IsFiniteNumber(NumericRaw(testRows[i], pos))
          /\ At(featureRows[i], pos) # Zero
    /\ \E i \in 1..Len(featureRows) : \E pos \in EmptySlots :
          ~IsFiniteNumber(NumericRaw(testRows[i], pos))

\* position (0-based) of the sentinel in a frozen vocabulary
SentinelIndex(vocab) == (CHOOSE i \in 1..Len(vocab) : vocab[i] = MISSING) - 1

\* C5: a row whose categorical value never appeared during vocabulary building
\* is encoded without failing and sets the cell offset + index('__MISSING__').
C5_UnseenGoesToSentinel ==
    /\ error # "TypeError" /\ Len(featureRows) = Len(testRows)
    /\ \A i \in 1..Len(featureRows) : \A name \in DOMAIN oneHotOffsets :
          Token(testRows[i][name]) \notin Range(vocabByFeature[name])
          => At(featureRows[i],
                oneHotOffsets[name].offset + SentinelIndex(vocabByFeature[name])) = One

\* C6: the artifact loaded by prediction.js equals, field for field, the
\* artifact train.js saved.
C6_RoundTrip == pc \in LoadedPcs => art = Artifacts

\* the vocabulary sets after a pass over rows, starting from sets
RECURSIVE VocabPass(_, _, _)
VocabPass(rows, k, sets) ==
    IF k > Len(rows) THEN sets
    ELSE VocabPass(rows, k + 1, VocabSetsAfter(sets, rows[k]))

Permuted(rows, perm) == [i \in 1..Len(rows) |-> rows[perm[i]]]

VocabFrozenPcs == {"t_layout", "t_encode", "t_persist", "t_save", "done"}

\* C7: building the vocabularies from any permutation of the rows yields, for
\* every categorical feature, the same vocabulary sequence and index map.
C7_VocabularyOrderIndependent ==
    pc \in VocabFrozenPcs =>
        \A perm \in Permutations(1..Len(trainCsv)) :
            LET sets == VocabPass(Permuted(trainCsv, perm), 1,
                                  [key \in DOMAIN vocabByFeature |-> << >>])
                vocabs == VocabByFeature(WithSentinel(sets))
            IN /\ vocabs = vocabByFeature
               /\ IndexByFeature(vocabs) = indexByFeature

C7_Witness ==
    /\ pc = "t_layout"
    /\ Len(trainCsv) = 2
    /\ \E name \in DOMAIN vocabByFeature :
          /\ Token(trainCsv[1][name]) # Token(trainCsv[2][name])
          /\ CodeUnitLess(Token(trainCsv[2][name]), Token(trainCsv[1][name]))
          /\ Len(vocabByFeature[name]) = 3

Min(a, b) == IF a < b THEN a ELSE b

\* C8: when the artifact's totalDim differs from the model's input width,
\* inference does not fail because of it; the warning is logged before the
\* adjustment; every row given to the model has modelInputDim columns, the first
\* min(totalDim, modelInputDim) of them as built and the padding zero.
C8_SliceOrPad ==
    /\ modelLoaded /\ modelInputDim # art.totalDim => warned /\ error = "none"
    /\ pc \in {"i_predict", "i_done"} =>
          \A i \in 1..Len(featTensor) :
              /\ Len(featTensor[i]) = modelInputDim
              /\ \A j \in 1..Min(art.totalDim, modelInputDim) :
                    featTensor[i][j] = Float32(featureRows[i][j])
              /\ \A j \in (art.totalDim + 1)..modelInputDim : featTensor[i][j] = Zero

C8_Witness ==
    /\ pc = "i_predict"
    /\ warned
    /\ modelInputDim < art.totalDim
    /\ Len(featTensor) = 2
    /\ featureRows[1][art.totalDim] = One

\* C9: with no persisted artifact, inference fails with the missing-artifact
\* error before the model is loaded, before any row is read or encoded, and
\* without writing any output.
C9_MissingArtifactFailsFirst ==
    /\ pc \in LoadedPcs => disk.exists
    /\ error = "MissingArtifacts" =>
          /\ pc = "i_failed"
          /\ ~modelLoaded
          /\ testRows = << >> /\ featureRows = << >>
          /\ ~submission.written
    /\ pc = "i_failed" /\ ~disk.exists => error = "MissingArtifacts"

C9_Witness == pc = "i_failed" /\ error = "MissingArtifacts" /\ ~disk.exists

\* C10: from a structurally invalid artifact (a required field missing, or a
\* stated totalDim that is not the numeric count plus the block sizes) inference
\* never encodes a row and never writes predictions.
C10_CorruptArtifactRejected ==
    corruption # "none" => featureRows = << >> /\ ~submission.written

TrainingPcs == {"t_stats", "t_vocab", "t_layout", "t_encode", "t_persist", "t_save", "done"}

\* C11: when the row source yields no record for the schema sample, the
\* training run fails at the schema peek: it never goes on to the statistics
\* pass, the vocabulary pass or the fit, and it writes neither the artifact
\* file nor the model.
C11_EmptySampleAborts ==
    Len(trainCsv) = 0 =>
        /\ pc \notin TrainingPcs
        /\ ~disk.exists
        /\ ~modelFile.exists

\* the label the claim assigns to a probability: 'True' from 0.5 upwards
LabelOf(p) == IF p.k = "fin" /\ 2 * p.n >= p.d THEN "True" ELSE "False"

\* submission.csv holds the header, then for the i-th test row one line with
\* that row's PassengerId and the label of that row's own probability
SubmissionMatchesRows ==
    /\ submission.written
    /\ Len(probArray) = Len(testRows)
    /\ Len(submission.lines) = Len(testRows) + 1
    /\ submission.lines[1] = [pid |-> "PassengerId", label |-> "Transported"]
    /\ \A i \in 1..Len(testRows) :
          submission.lines[i + 1] =
              [pid |-> String(PassengerIdOf(testRows[i])), label |-> LabelOf(probArray[i])]

\* C12 as stated: a finished inference run has written the header and exactly
\* one line per test row, in input order, each pairing the row's PassengerId
\* with the label of the row's own probability ('True' iff probability >= 0.5).
C12_OneLinePerRow ==
    pc \in {"i_done", "i_norows"} => SubmissionMatchesRows

\* C12 amended: the same, for a run that read at least one test row; a run
\* that read no test row writes no file at all, not even the header.
C12_OneLinePerRowIfAny ==
    /\ pc = "i_done" => Len(testRows) >= 1 /\ SubmissionMatchesRows
    /\ pc = "i_norows" => testRows = << >> /\ ~submission.written
    /\ submission.written => pc = "i_done"

C12_Witness ==
    /\ pc = "i_done"
    /\ Len(testRows) = 2
    /\ testRows[1].PassengerId = Undefined
    /\ testRows[2].PassengerId = StringV("p2")
    /\ probArray = <<Rat(1, 2), Rat(1, 4)>>
    /\ submission.lines[2] = [pid |-> "", label |-> "True"]
    /\ submission.lines[3] = [pid |-> "p2", label |-> "False"]

\* String.prototype.toLowerCase on the label texts of the model
LowerCase(s) ==
    CASE s \in {"True", "TRUE", "true"} -> "true"
      [] s \in {"False", "FALSE", "false"} -> "false"
      [] OTHER -> s

\* the truthy forms of a raw label: boolean true, numeric 1, the string "true"
\* in any letter case
Truthy(v) ==
    \/ v = BoolV(TRUE)
    \/ v = NumberV(One)
    \/ v.t = "string" /\ LowerCase(v.s) = "true"

\* C13: encodeLabel returns 1 for every truthy raw label (boolean true,
\* numeric 1, the string "true" in any letter case) and 0 for every other
\* value, a missing one included; it never returns anything else.
C13_LenientLabel ==
    \A i \in 1..Len(encodedLabels) :
        encodedLabels[i] = <<IF Truthy(trainCsv[i].Transported) THEN 1 ELSE 0>>

LayoutDonePcs == {"t_encode", "t_persist", "t_save", "done"}

\* the block of the k-th categorical feature, in schema order
BlockOf(k) == oneHotOffsets[At(featureNames, stringIndices[k])]
BlockSlots(k) == BlockOf(k).offset..(BlockOf(k).offset + BlockOf(k).size - 1)

RECURSIVE SumOfSizes(_)
SumOfSizes(k) == IF k = 0 THEN 0 ELSE SumOfSizes(k - 1) + BlockOf(k).size

\* C14: after layout planning the numeric features hold the slots
\* [0, numericCount) in schema order, the first block starts at numericCount,
\* every later block starts where the previous one ends, no two blocks overlap
\* and none overlaps a numeric slot, every block is as long as its vocabulary,
\* and totalDim = numericCount + the sum of the vocabulary sizes.
C14_LayoutContiguous ==
    pc \in LayoutDonePcs =>
        LET numericCount == Len(numericIndices)
            blocks == Len(stringIndices)
        IN /\ \A p, q \in 1..numericCount : p < q => numericIndices[p] < numericIndices[q]
           /\ DOMAIN oneHotOffsets = FeatureKeys(featureNames, stringIndices)
           /\ \A p, q \in 1..blocks : p < q => stringIndices[p] < stringIndices[q]
           /\ blocks >= 1 => BlockOf(1).offset = numericCount
           /\ \A k \in 1..(blocks - 1) :
                 BlockOf(k + 1).offset = BlockOf(k).offset + BlockOf(k).size
           /\ \A k \in 1..blocks :
                 /\ BlockOf(k).size = Len(vocabByFeature[At(featureNames, stringIndices[k])])
                 /\ BlockSlots(k) \cap 0..(numericCount - 1) = {}
                 /\ \A j \in 1..blocks : j # k => BlockSlots(j) \cap BlockSlots(k) = {}
           /\ totalDim = numericCount + SumOfSizes(blocks)

C14_Witness ==
    /\ pc = "t_encode"
    /\ Len(numericIndices) = 1
    /\ Len(stringIndices) = 2
    /\ BlockOf(1).size = 2
    /\ BlockOf(2).size = 3
    /\ BlockOf(2).offset = 3
    /\ totalDim = 6

\* the tokens the rows of train.csv hold for a feature
TokensOf(name) == {Token(trainCsv[i][name]) : i \in 1..Len(trainCsv)}

RebuiltPcs == {"i_model", "i_rows", "i_adjust", "i_predict", "i_done", "i_norows"}

\* C15: every frozen vocabulary holds the sentinel and each distinct token of
\* its feature once, is sorted, and its index map sends each token to the
\* token's position; the index map inference rebuilds from the persisted
\* sequences equals the one training used.
C15_VocabularyIndexed ==
    /\ pc \in VocabFrozenPcs =>
          \A name \in DOMAIN vocabByFeature :
              LET vocab == vocabByFeature[name]
                  map == indexByFeature[name]
              IN /\ Range(vocab) = TokensOf(name) \cup {MISSING}
                 /\ \A i, j \in 1..Len(vocab) : i < j => CodeUnitLess(vocab[i], vocab[j])
                 /\ DOMAIN map = Range(vocab)
                 /\ \A i \in 1..Len(vocab) : vocab[i] \in DOMAIN map => map[vocab[i]] = i - 1
    /\ pc \in RebuiltPcs /\ modelFile.exists => maps = indexByFeature

\* the value the i-th row of train.csv holds for the numeric feature at slot pos
NumericValue(i, pos) == trainCsv[i][At(featureNames, At(numericIndices, pos))]

\* the rows among the first k whose value at slot pos is a finite number
FiniteRows(pos, k) == {i \in 1..k : IsFiniteNumber(NumericValue(i, pos))}

\* the finite values at slot pos among the first k rows, added up in row order
RECURSIVE FiniteSum(_, _)
FiniteSum(pos, k) ==
    IF k = 0 THEN Zero
    ELSE IF k \in FiniteRows(pos, k) THEN FAdd(FiniteSum(pos, k - 1), NumericValue(k, pos).f)
    ELSE FiniteSum(pos, k - 1)

RECURSIVE FiniteSumOfSquares(_, _)
FiniteSumOfSquares(pos, k) ==
    IF k = 0 THEN Zero
    ELSE IF k \in FiniteRows(pos, k)
         THEN FAdd(FiniteSumOfSquares(pos, k - 1),
                   FMul(NumericValue(k, pos).f, NumericValue(k, pos).f))
    ELSE FiniteSumOfSquares(pos, k - 1)

StatsDonePcs == {"t_vocab", "t_layout", "t_encode", "t_persist", "t_save", "done"}

\* C16: during the statistics pass the sum, the sum of squares and the count
\* of a numeric feature are those of the finite values among the rows handed
\* over so far (a row with a missing, non-number or non-finite value changes
\* none of them); after the pass mean = sum / count over exactly the finite
\* values, and mean = 0 when there is none. Ages 1 and 3 give mean 2; Age 1
\* with a non-finite Age gives mean 1.
C16_StatsOverFiniteValues ==
    /\ pc = "t_stats" =>
          \A pos \in 0..(Len(numericIndices) - 1) :
              /\ At(counts, pos) = Cardinality(FiniteRows(pos, cursor))
              /\ At(sums, pos) = FiniteSum(pos, cursor)
              /\ variant = "normalizing" =>
                    At(sumSquares, pos) = FiniteSumOfSquares(pos, cursor)
    /\ pc \in StatsDonePcs =>
          /\ Len(numericMeans) = Len(numericIndices)
          /\ \A pos \in 0..(Len(numericIndices) - 1) :
                LET n == Cardinality(FiniteRows(pos, Len(trainCsv)))
                IN At(numericMeans, pos) =
                       IF n = 0 THEN Zero ELSE FDiv(FiniteSum(pos, Len(trainCsv)), Num(n))
          /\ Len(trainCsv) = 2 /\ trainCsv[1].Age = NumberV(Num(1)) =>
                /\ trainCsv[2].Age = NumberV(Num(3)) => numericMeans = <<Num(2)>>
                /\ ~IsFiniteNumber(trainCsv[2].Age) => numericMeans = <<Num(1)>>

C16_Witness ==
    /\ pc = "t_vocab"
    /\ Len(trainCsv) = 2
    /\ trainCsv[1].Age = NumberV(Num(3))
    /\ trainCsv[2].Age = Undefined
    /\ counts = <<1>>
    /\ sums = <<Num(3)>>
    /\ numericMeans = <<Num(3)>>

\* C17: every computed std is strictly positive: 1 for a numeric feature with
\* no finite value, and otherwise a number greater than 0 (the square root of
\* the variance clamped from below at 1e-12), also for a constant column.
C17_StdPositive ==
    pc \in StatsDonePcs /\ variant = "normalizing" =>
        /\ Len(numericStds) = Len(numericIndices)
        /\ \A pos \in 0..(Len(numericIndices) - 1) :
              /\ At(counts, pos) = 0 => At(numericStds, pos) = One
              /\ FGtZero(At(numericStds, pos))

\* the slots of the numeric features
NumericSlots == 0..(Len(numericIndices) - 1)

\* a vector as a missing numeric value at slot pos must leave it: the cell at
\* pos holds the imputed value, the vector has its planned length and every
\* cell behind the numeric slots is a one-hot cell
ImputedAt(vec, pos, value) ==
    /\ Len(vec) = totalDim
    /\ At(vec, pos) = value
    /\ \A j \in Len(numericIndices)..(totalDim - 1) : At(vec, j) \in {Zero, One}

\* C18: encoding a record whose value for a numeric feature is missing, not a
\* number or not finite raises no error and writes one cell, the slot of the
\* feature: 0 in train.js (standardized), the feature's mean in the older
\* train script and in encodeRow of prediction.js (mean-imputed only).
C18_MissingNumericImputed ==
    /\ error # "TypeError"
    /\ Len(featureRows) = Len(testRows)
    /\ \A pos \in NumericSlots :
          /\ \A i \in 1..Len(encodedRows) :
                ~IsFiniteNumber(NumericRaw(trainCsv[i], pos)) =>
                    ImputedAt(encodedRows[i], pos,
                              IF variant = "normalizing" THEN Zero
                              ELSE At(numericMeans, pos))
          /\ \A i \in 1..Len(featureRows) :
                ~IsFiniteNumber(NumericRaw(testRows[i], pos)) =>
                    ImputedAt(featureRows[i], pos, At(numericMeans, pos))

SchemaKnownPcs == TrainingPcs

StrictlyIncreasing(s) == \A p, q \in 1..Len(s) : p < q => s[p] < s[q]

\* C19: the schema peek classifies every field of the sampled record exactly
\* once: a field is numeric exactly when the runtime type of its sampled value
\* is number (Infinity included), otherwise categorical; numericIndices and
\* stringIndices are disjoint, cover every feature index, and each is in the
\* field order of the record.
C19_SchemaPartition ==
    pc \in SchemaKnownPcs /\ Len(trainCsv) >= 1 =>
        /\ featureNames = Header
        /\ \A idx \in 0..(Len(featureNames) - 1) :
              LET v == trainCsv[1][At(featureNames, idx)]
              IN /\ idx \in Range(numericIndices) <=> v.t = "number"
                 /\ idx \in Range(stringIndices) <=> v.t # "number"
        /\ Range(numericIndices) \cap Range(stringIndices) = {}
        /\ Range(numericIndices) \cup Range(stringIndices) = 0..(Len(featureNames) - 1)
        /\ StrictlyIncreasing(numericIndices)
        /\ StrictlyIncreasing(stringIndices)

C19_Witness ==
    /\ pc = "t_stats"
    /\ Len(trainCsv) >= 1
    /\ trainCsv[1].Age = NumberV(PosInf)
    /\ trainCsv[1].HomePlanet = Null
    /\ numericIndices = <<1>>
    /\ stringIndices = <<0, 2>>

PassPcs == {"t_stats", "t_vocab", "t_encode"}

\* C20: over a one-shot row source, every full pass of the training run (the
\* statistics pass, the vocabulary pass, the encoding pass) is the only reader
\* of its row source, from the first record on, and has been handed every
\* record of train.csv, each once, when the source is exhausted: no pass
\* starts on a source a peek or an earlier pass has already taken records from.
C20_EveryPassSeesEveryRecord ==
    pc \in PassPcs =>
        /\ consumed = cursor
        /\ ~HasNext => cursor = Len(trainCsv)

\* pcs of the tensor script after stringVocabularies was built
TensorFrozenPcs == {"p_merge", "p_done"}

\* train.js: the frozen vocabularies hold the token of every row, and the Sets
\* hold nothing the vocabularies lack
SyncVocabularyComplete ==
    \A key \in DOMAIN vocabByFeature :
        /\ \A i \in 1..Len(trainCsv) :
              Token(trainCsv[i][key]) \in Range(vocabByFeature[key])
        /\ Range(vocabSets[key]) = Range(vocabByFeature[key])

\* tensor script: no callback is outstanding, the frozen vocabularies hold the
\* token of every row, and the Sets hold nothing the vocabularies lack
AsyncVocabularyComplete ==
    /\ pendingBatches = << >>
    /\ \A c \in 1..Len(stringVocabularies) :
          /\ \A i \in 1..Len(trainCsv) :
                BatchToken(StrArray(trainCsv[i], featureNames, stringIndices)[c])
                    \in Range(stringVocabularies[c])
          /\ Range(stringVocabSets[c]) = Range(stringVocabularies[c])

\* C21: a vocabulary is frozen only after the token of every row of the pass
\* was inserted into its Set, and nothing is inserted after the freeze, in the
\* script with synchronous callbacks and in the one whose per-batch callbacks
\* return a promise the pass driver does not await.
C21_FreezeAfterEveryInsert ==
    /\ pc \in VocabFrozenPcs => SyncVocabularyComplete
    /\ pc \in TensorFrozenPcs => AsyncVocabularyComplete

\* what the encoders of train.js close over once layout planning has finished
FrozenState ==
    <<numericMeans, numericStds, vocabByFeature, indexByFeature, oneHotOffsets, totalDim>>

\* what encodeRow of prediction.js closes over once the index maps are rebuilt
FrozenArtifact == <<art, maps>>

\* no step taken after layout planning changes the preprocessing state of the
\* training run, none taken after the index maps were rebuilt changes the
\* loaded artifact
EncodingKeepsStateFrozen ==
    /\ pc \in LayoutDonePcs \cup LoadedPcs \cup {"i_check", "i_failed"}
          => FrozenState' = FrozenState
    /\ pc \in RebuiltPcs => FrozenArtifact' = FrozenArtifact

\* the same record encoded twice gives the same vector
SameRecordSameVector ==
    /\ \A i, j \in 1..Len(encodedRows) :
          trainCsv[i] = trainCsv[j] => encodedRows[i] = encodedRows[j]
    /\ \A i, j \in 1..Len(featureRows) :
          testRows[i] = testRows[j] => featureRows[i] = featureRows[j]

\* preprocessing.json, as written by the training run, holds the statistics,
\* vocabularies and layout the encodedDataset callback used
PersistedIsWhatEncoded ==
    (pc \in {"t_save", "done"} /\ disk.exists /\ corruption = "none") =>
        LET doc == JSONParse(disk.doc)
        IN /\ doc.numericMeans = numericMeans
           /\ variant = "normalizing" => doc.numericStds = numericStds
           /\ doc.vocabByFeature = vocabByFeature
           /\ doc.oneHotOffsets = oneHotOffsets
           /\ doc.totalDim = totalDim
           /\ IndexByFeature(doc.vocabByFeature) = indexByFeature

\* C22: encoding changes none of the frozen preprocessing state (means, stds,
\* vocabularies, index maps, layout, totalDim stay what they were when layout
\* planning finished), so the same record encoded twice gives the same vector,
\* and the persisted artifact holds exactly the values the training batches
\* were encoded with.
C22_EncodeChangesNothing ==
    /\ [][EncodingKeepsStateFrozen]_vars
    /\ [](SameRecordSameVector /\ PersistedIsWhatEncoded)

====
